---- MODULE Spec2Model ----
(***************************************************************************)
(* CvManager backend: the project controller's request handlers over the   *)
(* project and manager (assignment) stores, and the routing table's        *)
(* authorization pipeline ahead of them.                                   *)
(*                                                                         *)
(* A handler is an async function: it gives up control at every await, so  *)
(* each store round trip is one step and two requests interleave between   *)
(* their steps.  The code between two awaits runs without interruption and *)
(* belongs to the step of the await that precedes it.                      *)
(***************************************************************************)
EXTENDS Integers, Sequences, FiniteSets, TLC

\* ------------------------------------------------------------------ bounds

\* Requests in flight at once.
MaxRequests == 2
\* Requests received in one run.
MaxServed == 2

Slots == 1 .. MaxRequests

\* ------------------------------------------------------------ fixed stores

\* The users collection (no handler of the controller writes it).
Users == {1, 2, 3}
\* Identifiers a request may carry for a user: 4 is well formed and names no user.
UserIdInputs == {1, 2, 3, 4}

\* The companies collection (no handler of the controller writes it): company 1
\* is active, company 2 is not.
Companies == {[_id |-> 1, is_active |-> TRUE], [_id |-> 2, is_active |-> FALSE]}
\* Identifiers a request may carry for a company: 3 is well formed and names none.
CompanyIdInputs == {1, 2, 3}

\* Identifiers a request may carry for a project.
ProjectIdInputs == {1, 2, 3}
Names == {"n1", "n2"}
ManagerTypes == {"owner", "manager"}

\* ------------------------------------------------------------------- state

VARIABLES
    projects,   \* the projects collection: documents, soft-deleted ones included
    managers,   \* the managers collection: documents, soft-deleted ones included
    reqs,       \* per slot: the request, the handler's position and locals, the response
    served,     \* requests received so far
    events,     \* domain events emitted so far: {kind, id}
    pending,    \* subscriber work started by an emitted event and not yet written
    auth        \* the request in the router's middleware chain, and what the chain did

vars == <<projects, managers, reqs, served, events, pending, auth>>

\* ------------------------------------------------------------ store queries

\* Documents a query sees: soft-deleted documents are hidden from every find.
Visible(coll) == {d \in coll : ~d.deleted}

Company_findOne(id) == {c \in Companies : c._id = id}

User_findById(id) == {u \in Users : u = id}

\* findById as it would be if it returned soft-deleted documents too.
Project_findById_WithDeleted(coll, id) == {p \in coll : p._id = id}

Project_findById(coll, id) == {p \in Visible(coll) : p._id = id}

Project_findOne(coll, name, company_id) ==
    {p \in Visible(coll) : p.name = name /\ p.company_id = company_id}

Manager_findOne(coll, entity, entity_id, user_id) ==
    {m \in Visible(coll) : m.entity = entity /\ m.entity_id = entity_id /\ m.user_id = user_id}

Manager_find(coll, entity, entity_id) ==
    {m \in Visible(coll) : m.entity = entity /\ m.entity_id = entity_id}

\* findOne returns one of the documents that match.
One(S) == CHOOSE d \in S : TRUE

\* The type a manager document gets when create() is given none.
ManagerSchemaDefaultType == "manager"

\* Model.create: a new document under a fresh _id, active by the schema's default.
Project_create(coll, name, company_id, created_by) ==
    coll \cup {[_id |-> Cardinality(coll) + 1, name |-> name, company_id |-> company_id,
                created_by |-> created_by, is_active |-> TRUE, deleted |-> FALSE]}

Manager_create(coll, entity, entity_id, user_id, type, created_by) ==
    coll \cup {[_id |-> Cardinality(coll) + 1, entity |-> entity, entity_id |-> entity_id,
                user_id |-> user_id, type |-> type, created_by |-> created_by,
                deleted |-> FALSE]}

\* document.delete(deletedBy): the soft delete of the document with this _id.
SoftDelete(coll, id) ==
    {IF d._id = id THEN [d EXCEPT !.deleted = TRUE] ELSE d : d \in coll}

Owners(coll, entity, entity_id) ==
    {m \in Manager_find(coll, entity, entity_id) : m.type = "owner"}

\* ---------------------------------------------------------------- requests

NoResponse == [kind |-> "none", msg |-> ""]
Failure(kind, msg) == [kind |-> kind, msg |-> msg]
Success(msg) == [kind |-> "success", msg |-> msg]

IdleRequest ==
    [op |-> "none", pc |-> "idle", id |-> 0, name |-> "", company_id |-> 0,
     manager_id |-> 0, type |-> "", user_id |-> 0, project |-> 0, project_company_id |-> 0,
     manager |-> 0, res |-> NoResponse]

\* req.user_id, the authenticated user, of the create requests (the other
\* requests only record it as created_by or deleted_by: user 1 sends them).
Principals == {1, 2}

\* The requests the router hands to the controller.
CreateRequests ==
    {[IdleRequest EXCEPT !.op = "create", !.pc = "create_findCompany", !.name = n,
                         !.company_id = c, !.user_id = u] :
        n \in Names, c \in CompanyIdInputs, u \in Principals}

DeleteRequests ==
    {[IdleRequest EXCEPT !.op = "delete", !.pc = "delete_findProject", !.id = i,
                         !.user_id = u] :
        i \in ProjectIdInputs, u \in {1}}

ManagerRequests ==
    {[IdleRequest EXCEPT !.op = "manager", !.pc = "manager_findProject", !.id = i,
                         !.manager_id = m, !.type = t, !.user_id = u] :
        i \in ProjectIdInputs, m \in UserIdInputs, t \in ManagerTypes, u \in {1}}

DeleteManagerRequests ==
    {[IdleRequest EXCEPT !.op = "deleteManager", !.pc = "deleteManager_findProject",
                         !.id = i, !.manager_id = m, !.user_id = u] :
        i \in ProjectIdInputs, m \in UserIdInputs, u \in {1}}

Requests == CreateRequests \cup DeleteRequests \cup ManagerRequests \cup DeleteManagerRequests

Done(r, res) == [reqs EXCEPT ![r].pc = "done", ![r].res = res]

\* No request is in the middleware chain.
NoAuth ==
    [mount |-> "", action |-> "", id |-> 0, token |-> [valid |-> FALSE, userId |-> 0, roleId |-> ""],
     principal |-> [userId |-> 0, roleId |-> ""], at |-> 0, sub |-> "", loads |-> 0,
     parentId |-> 0, chain |-> <<>>, res |-> NoResponse, executed |-> FALSE]

\* -------------------------------------------------------------------- init

\* The stores as the process finds them: project 1 of company 1, created by
\* user 1, with two owners (users 1 and 2).
SeedProjects ==
    {[_id |-> 1, name |-> "n1", company_id |-> 1, created_by |-> 1, is_active |-> TRUE,
      deleted |-> FALSE]}

SeedManagers ==
    {[_id |-> 1, entity |-> "projects", entity_id |-> 1, user_id |-> 1, type |-> "owner",
      created_by |-> 1, deleted |-> FALSE],
     [_id |-> 2, entity |-> "projects", entity_id |-> 1, user_id |-> 2, type |-> "owner",
      created_by |-> 1, deleted |-> FALSE]}

Init ==
    /\ projects = SeedProjects
    /\ managers = SeedManagers
    /\ reqs = [r \in Slots |-> IdleRequest]
    /\ served = 0
    /\ events = {}
    /\ pending = {}
    /\ auth = NoAuth

\* ------------------------------------------------------------------ actions

\* A request reaches the controller.
Receive(r) ==
    /\ reqs[r].pc \in {"idle", "done"}
    /\ served < MaxServed
    /\ \E q \in Requests : reqs' = [reqs EXCEPT ![r] = q]
    /\ served' = served + 1
    /\ UNCHANGED <<projects, managers, events, pending, auth>>

\* ---- create

CreateFindCompany(r) ==
    /\ reqs[r].pc = "create_findCompany"
    /\ LET company == Company_findOne(reqs[r].company_id) IN
         reqs' = IF company = {}
                   THEN Done(r, Failure("NotFoundError", "company.errors.company_notfound"))
                 ELSE IF ~One(company).is_active
                   THEN Done(r, Failure("BadRequestError",
                                        "project.errors.disabled_companey_create_project_error"))
                 ELSE [reqs EXCEPT ![r].pc = "create_findProject"]
    /\ UNCHANGED <<projects, managers, served, events, pending, auth>>

CreateFindProject(r) ==
    /\ reqs[r].pc = "create_findProject"
    /\ LET project == Project_findOne(projects, reqs[r].name, reqs[r].company_id) IN
         reqs' = IF project # {}
                   THEN Done(r, Failure("AlreadyExists",
                                        "project.errors.project_already_attached_company"))
                 ELSE [reqs EXCEPT ![r].pc = "create_create"]
    /\ UNCHANGED <<projects, managers, served, events, pending, auth>>

CreateCreate(r) ==
    /\ reqs[r].pc = "create_create"
    /\ LET id == Cardinality(projects) + 1 IN
         /\ projects' = Project_create(projects, reqs[r].name, reqs[r].company_id,
                                       reqs[r].user_id)
         /\ events' = events \cup {[kind |-> "CREATE", id |-> id]}
         /\ pending' = pending \cup {[kind |-> "CREATE", id |-> id,
                                      user_id |-> reqs[r].user_id]}
         /\ reqs' = [Done(r, Success("project.messages.project_successfully_created"))
                       EXCEPT ![r].project = id]
    /\ UNCHANGED <<managers, served, auth>>

\* ---- manager (set manager)

\* `if (manager) throw ...`: the user already has a manager document for the project.
AlreadyManager(found) == found # {}

ManagerFindProject(r) ==
    /\ reqs[r].pc = "manager_findProject"
    /\ LET project == Project_findById(projects, reqs[r].id) IN
         reqs' = IF project = {}
                   THEN Done(r, Failure("NotFoundError", "project.errors.project_notfound"))
                 ELSE [reqs EXCEPT ![r].pc = "manager_findUser",
                                   ![r].project = One(project)._id]
    /\ UNCHANGED <<projects, managers, served, events, pending, auth>>

ManagerFindUser(r) ==
    /\ reqs[r].pc = "manager_findUser"
    /\ LET user == User_findById(reqs[r].manager_id) IN
         reqs' = IF user = {}
                   THEN Done(r, Failure("NotFoundError", "user.errors.user_notfound"))
                 ELSE [reqs EXCEPT ![r].pc = "manager_findManager"]
    /\ UNCHANGED <<projects, managers, served, events, pending, auth>>

ManagerFindManager(r) ==
    /\ reqs[r].pc = "manager_findManager"
    /\ LET manager == Manager_findOne(managers, "projects", reqs[r].project,
                                      reqs[r].manager_id) IN
         reqs' = IF AlreadyManager(manager)
                   THEN Done(r, Failure("BadRequestError",
                            "project.errors.the_user_is_currently_an_manager_for_project"))
                 ELSE [reqs EXCEPT ![r].pc = "manager_create"]
    /\ UNCHANGED <<projects, managers, served, events, pending, auth>>

\* The document is created from user_id, entity, entity_id and created_by alone:
\* the body's type is not passed on, so the schema's default type is stored.
ManagerCreate(r) ==
    /\ reqs[r].pc = "manager_create"
    /\ managers' = Manager_create(managers, "projects", reqs[r].project, reqs[r].manager_id,
                                  ManagerSchemaDefaultType, reqs[r].user_id)
    /\ events' = events \cup {[kind |-> "SET_MANAGER", id |-> reqs[r].project]}
    /\ reqs' = [Done(r, Success("project.messages.project_manager_successfully_updated"))
                  EXCEPT ![r].manager = Cardinality(managers) + 1]
    /\ UNCHANGED <<projects, served, pending, auth>>

\* ---- deleteManager (unset manager)

\* The check as it would be if only the sole owner were protected, decided on the
\* owners the find step saw.
OwnerCannotBeDeleted_SoleOwnerOnly(coll, manager) ==
    /\ manager.type = "owner"
    /\ Cardinality(Owners(coll, manager.entity, manager.entity_id)) = 1

\* `if (manager.type === 'owner') throw ...`: an owner's document is never deleted.
OwnerCannotBeDeleted(coll, manager) == manager.type = "owner"

DeleteManagerFindProject(r) ==
    /\ reqs[r].pc = "deleteManager_findProject"
    /\ LET project == Project_findById(projects, reqs[r].id) IN
         reqs' = IF project = {}
                   THEN Done(r, Failure("NotFoundError", "project.errors.project_notfound"))
                 ELSE [reqs EXCEPT ![r].pc = "deleteManager_findUser",
                                   ![r].project = One(project)._id]
    /\ UNCHANGED <<projects, managers, served, events, pending, auth>>

DeleteManagerFindUser(r) ==
    /\ reqs[r].pc = "deleteManager_findUser"
    /\ LET user == User_findById(reqs[r].manager_id) IN
         reqs' = IF user = {}
                   THEN Done(r, Failure("NotFoundError", "user.errors.user_notfound"))
                 ELSE [reqs EXCEPT ![r].pc = "deleteManager_findManager"]
    /\ UNCHANGED <<projects, managers, served, events, pending, auth>>

\* The UNSET_MANAGER event is emitted before the delete is awaited.
DeleteManagerFindManager(r) ==
    /\ reqs[r].pc = "deleteManager_findManager"
    /\ LET manager == Manager_findOne(managers, "projects", reqs[r].project,
                                      reqs[r].manager_id) IN
         IF manager = {}
           THEN /\ reqs' = Done(r, Failure("BadRequestError",
                               "project.errors.the_user_is_not_an_manager_for_project"))
                /\ events' = events
         ELSE IF OwnerCannotBeDeleted(managers, One(manager))
           THEN /\ reqs' = [Done(r, Failure("BadRequestError",
                               "project.errors.the_owner_manager_cannot_be_deleted"))
                              EXCEPT ![r].manager = One(manager)._id]
                /\ events' = events
         ELSE /\ reqs' = [reqs EXCEPT ![r].pc = "deleteManager_delete",
                                      ![r].manager = One(manager)._id]
              /\ events' = events \cup {[kind |-> "UNSET_MANAGER", id |-> reqs[r].project]}
    /\ UNCHANGED <<projects, managers, served, pending, auth>>

DeleteManagerDelete(r) ==
    /\ reqs[r].pc = "deleteManager_delete"
    /\ managers' = SoftDelete(managers, reqs[r].manager)
    /\ reqs' = Done(r, Success("project.messages.project_manager_successfully_deleted"))
    /\ UNCHANGED <<projects, served, events, pending, auth>>

\* ---- delete

DeleteFindProject(r) ==
    /\ reqs[r].pc = "delete_findProject"
    /\ LET project == Project_findById(projects, reqs[r].id) IN
         reqs' = IF project = {}
                   THEN Done(r, Failure("NotFoundError", "project.errors.project_notfound"))
                 ELSE [reqs EXCEPT ![r].pc = "delete_delete",
                                   ![r].project = One(project)._id]
    /\ UNCHANGED <<projects, managers, served, events, pending, auth>>

DeleteDelete(r) ==
    /\ reqs[r].pc = "delete_delete"
    /\ projects' = SoftDelete(projects, reqs[r].project)
    /\ events' = events \cup {[kind |-> "DELETE", id |-> reqs[r].project]}
    /\ reqs' = Done(r, Success("project.messages.project_successfully_deleted"))
    /\ UNCHANGED <<managers, served, pending, auth>>

\* ---- subscribers

\* The CREATE event's subscriber: the project's creator becomes its owner.  The
\* event is fire-and-forget, so the write lands some time after the handler's
\* create, or (best-effort delivery) never.
OnCreate ==
    \E e \in pending :
        /\ e.kind = "CREATE"
        /\ managers' = Manager_create(managers, "projects", e.id, e.user_id, "owner",
                                      e.user_id)
        /\ pending' = pending \ {e}
        /\ UNCHANGED <<projects, reqs, served, events, auth>>

\* ---------------------------------------------------------------- the system

Next ==
    \/ \E r \in Slots : Receive(r)
    \/ \E r \in Slots : CreateFindCompany(r)
    \/ \E r \in Slots : CreateFindProject(r)
    \/ \E r \in Slots : CreateCreate(r)
    \/ \E r \in Slots : ManagerFindProject(r)
    \/ \E r \in Slots : ManagerFindUser(r)
    \/ \E r \in Slots : ManagerFindManager(r)
    \/ \E r \in Slots : ManagerCreate(r)
    \/ \E r \in Slots : DeleteManagerFindProject(r)
    \/ \E r \in Slots : DeleteManagerFindUser(r)
    \/ \E r \in Slots : DeleteManagerFindManager(r)
    \/ \E r \in Slots : DeleteManagerDelete(r)
    \/ \E r \in Slots : DeleteFindProject(r)
    \/ \E r \in Slots : DeleteDelete(r)
    \/ OnCreate

Spec == Init /\ [][Next]_vars

\* ======================================================================
\* The controller's other handlers, and the controller as a whole.
\* ======================================================================

\* Identifiers the requests of the whole controller carry: project 1 is there
\* from the start, project 2 once a create has made it.
ProjectIds == {1, 2}

\* req.body of an update: "" is a name left undefined, 0 a company_id left undefined.
UpdateBodies ==
    {[name |-> "", company_id |-> 2], [name |-> "n1", company_id |-> 0],
     [name |-> "n2", company_id |-> 0], [name |-> "", company_id |-> 0]}

\* Requests that carry the project's id and nothing else the handler reads.
IdOps ==
    {"find", "delete", "getPositions", "getManagers", "getResumes", "active", "deActive",
     "updateLogo"}

FirstPc(op) ==
    CASE op = "find" -> "find_findProject"
      [] op = "delete" -> "delete_findProject"
      [] op = "getPositions" -> "getPositions_findProject"
      [] op = "getManagers" -> "getManagers_findProject"
      [] op = "getResumes" -> "getResumes_findProject"
      [] op = "active" -> "active_findProject"
      [] op = "deActive" -> "deActive_findProject"
      [] op = "updateLogo" -> "updateLogo_findProject"

ProjectRequests ==
    {[IdleRequest EXCEPT !.op = "create", !.pc = "create_findCompany", !.name = n,
                         !.company_id = 1, !.user_id = 1] : n \in Names}
    \cup {[IdleRequest EXCEPT !.op = op, !.pc = FirstPc(op), !.id = i, !.user_id = 1] :
            op \in IdOps, i \in ProjectIds}
    \cup {[IdleRequest EXCEPT !.op = "update", !.pc = "update_findProject", !.id = i,
                              !.name = b.name, !.company_id = b.company_id, !.user_id = 1] :
            i \in ProjectIds, b \in UpdateBodies}
    \cup {[IdleRequest EXCEPT !.op = "manager", !.pc = "manager_findProject", !.id = i,
                              !.manager_id = 3, !.type = "manager", !.user_id = 1] :
            i \in ProjectIds}
    \cup {[IdleRequest EXCEPT !.op = "deleteManager", !.pc = "deleteManager_findProject",
                              !.id = i, !.manager_id = 3, !.user_id = 1] :
            i \in ProjectIds}

ReceiveProject(r) ==
    /\ reqs[r].pc \in {"idle", "done"}
    /\ served < MaxServed
    /\ \E q \in ProjectRequests : reqs' = [reqs EXCEPT ![r] = q]
    /\ served' = served + 1
    /\ UNCHANGED <<projects, managers, events, pending, auth>>

\* ---- find

FindFindProject(r) ==
    /\ reqs[r].pc = "find_findProject"
    /\ LET project == Project_findById(projects, reqs[r].id) IN
         reqs' = IF project = {}
                   THEN Done(r, Failure("NotFoundError", "project.errors.project_notfound"))
                 ELSE [Done(r, Success("project.messages.project_found"))
                         EXCEPT ![r].project = One(project)._id]
    /\ UNCHANGED <<projects, managers, served, events, pending, auth>>

\* ---- update

\* Project.findOne({_id: {$ne: id}, name, company_id}).
Project_findOneOther(coll, id, name, company_id) ==
    {p \in Project_findOne(coll, name, company_id) : p._id # id}

\* Project.findByIdAndUpdate(id, body): the fields the body defines are written
\* to the document the query finds.
Project_findByIdAndUpdate(coll, id, name, company_id) ==
    {IF d \in Project_findById(coll, id)
       THEN [d EXCEPT !.name = IF name = "" THEN @ ELSE name,
                      !.company_id = IF company_id = 0 THEN @ ELSE company_id]
     ELSE d : d \in coll}

UpdateFindProject(r) ==
    /\ reqs[r].pc = "update_findProject"
    /\ LET project == Project_findById(projects, reqs[r].id) IN
         reqs' = IF project = {}
                   THEN Done(r, Failure("NotFoundError", "project.errors.project_notfound"))
                 ELSE [reqs EXCEPT ![r].pc = IF reqs[r].name # "" THEN "update_findDuplicate"
                                             ELSE "update_update",
                                   ![r].project = One(project)._id,
                                   ![r].project_company_id = One(project).company_id]
    /\ UNCHANGED <<projects, managers, served, events, pending, auth>>

\* The duplicate is looked for under the new name in the company the project had
\* when it was loaded; a body without a name skips the lookup.
UpdateFindDuplicate(r) ==
    /\ reqs[r].pc = "update_findDuplicate"
    /\ LET duplicateProject == Project_findOneOther(projects, reqs[r].project, reqs[r].name,
                                                    reqs[r].project_company_id) IN
         reqs' = IF duplicateProject # {}
                   THEN Done(r, Failure("AlreadyExists",
                                        "project.errors.project_already_attached_company"))
                 ELSE [reqs EXCEPT ![r].pc = "update_update"]
    /\ UNCHANGED <<projects, managers, served, events, pending, auth>>

\* The then-callback runs whether or not a document was found (event id 0: the
\* callback was handed null).
UpdateUpdate(r) ==
    /\ reqs[r].pc = "update_update"
    /\ projects' = Project_findByIdAndUpdate(projects, reqs[r].id, reqs[r].name,
                                             reqs[r].company_id)
    /\ events' = events \cup
                   {[kind |-> "UPDATE",
                     id |-> IF Project_findById(projects, reqs[r].id) = {} THEN 0
                            ELSE reqs[r].id]}
    /\ reqs' = Done(r, Success("project.messages.project_successfully_updated"))
    /\ UNCHANGED <<managers, served, pending, auth>>

\* ---- getPositions, getManagers, getResumes

ListFindProject(r, pc, next) ==
    /\ reqs[r].pc = pc
    /\ LET project == Project_findById(projects, reqs[r].id) IN
         reqs' = IF project = {}
                   THEN Done(r, Failure("NotFoundError", "project.errors.project_not_found"))
                 ELSE [reqs EXCEPT ![r].pc = next, ![r].project = One(project)._id]
    /\ UNCHANGED <<projects, managers, served, events, pending, auth>>

\* The second query of a listing: it reads, and the response carries what it read.
ListFind(r, pc, msg) ==
    /\ reqs[r].pc = pc
    /\ reqs' = Done(r, Success(msg))
    /\ UNCHANGED <<projects, managers, served, events, pending, auth>>

GetPositionsFindProject(r) ==
    ListFindProject(r, "getPositions_findProject", "getPositions_find")
GetPositionsFind(r) ==
    ListFind(r, "getPositions_find", "project.messages.project_positions_found")

GetManagersFindProject(r) ==
    ListFindProject(r, "getManagers_findProject", "getManagers_find")
GetManagersFind(r) ==
    ListFind(r, "getManagers_find", "project.messages.project_managers_found")

GetResumesFindProject(r) ==
    ListFindProject(r, "getResumes_findProject", "getResumes_find")
GetResumesFind(r) ==
    ListFind(r, "getResumes_find", "project.messages.project_resumes_found")

\* ---- active, deActive

\* document.save() of a loaded project whose is_active was set: the write goes to
\* the document by its _id.
Project_saveIsActive(coll, id, is_active) ==
    {IF d._id = id THEN [d EXCEPT !.is_active = is_active] ELSE d : d \in coll}

ActiveFindProject(r) ==
    /\ reqs[r].pc = "active_findProject"
    /\ LET project == Project_findById(projects, reqs[r].id) IN
         reqs' = IF project = {}
                   THEN Done(r, Failure("NotFoundError", "project.errors.project_not_found"))
                 ELSE IF One(project).is_active
                   THEN Done(r, Failure("BadRequestError",
                                        "project.errors.project_activated_alredy"))
                 ELSE [reqs EXCEPT ![r].pc = "active_save", ![r].project = One(project)._id]
    /\ UNCHANGED <<projects, managers, served, events, pending, auth>>

ActiveSave(r) ==
    /\ reqs[r].pc = "active_save"
    /\ projects' = Project_saveIsActive(projects, reqs[r].project, TRUE)
    /\ events' = events \cup {[kind |-> "ACTIVE", id |-> reqs[r].project]}
    /\ reqs' = Done(r, Success("project.messages.project_successfuly_activated"))
    /\ UNCHANGED <<managers, served, pending, auth>>

DeActiveFindProject(r) ==
    /\ reqs[r].pc = "deActive_findProject"
    /\ LET project == Project_findById(projects, reqs[r].id) IN
         reqs' = IF project = {}
                   THEN Done(r, Failure("NotFoundError", "project.errors.project_not_found"))
                 ELSE IF ~One(project).is_active
                   THEN Done(r, Failure("BadRequestError",
                                        "project.errors.project_deactivated_alredy"))
                 ELSE [reqs EXCEPT ![r].pc = "deActive_save", ![r].project = One(project)._id]
    /\ UNCHANGED <<projects, managers, served, events, pending, auth>>

DeActiveSave(r) ==
    /\ reqs[r].pc = "deActive_save"
    /\ projects' = Project_saveIsActive(projects, reqs[r].project, FALSE)
    /\ events' = events \cup {[kind |-> "DEACTIVE", id |-> reqs[r].project]}
    /\ reqs' = Done(r, Success("project.messages.project_successfuly_deactivated"))
    /\ UNCHANGED <<managers, served, pending, auth>>

\* ---- updateLogo

\* `let project = await project.findById(...)`: the right-hand side reads the
\* block's own `project` before it is initialised, which throws a ReferenceError;
\* the catch hands it to next(err).  No query is sent and nothing is stored.
UpdateLogo(r) ==
    /\ reqs[r].pc = "updateLogo_findProject"
    /\ reqs' = Done(r, Failure("ReferenceError",
                               "Cannot access 'project' before initialization"))
    /\ UNCHANGED <<projects, managers, served, events, pending, auth>>

\* ---- the controller

NextProject ==
    \/ \E r \in Slots : ReceiveProject(r)
    \/ \E r \in Slots : FindFindProject(r)
    \/ \E r \in Slots : CreateFindCompany(r)
    \/ \E r \in Slots : CreateFindProject(r)
    \/ \E r \in Slots : CreateCreate(r)
    \/ \E r \in Slots : UpdateFindProject(r)
    \/ \E r \in Slots : UpdateFindDuplicate(r)
    \/ \E r \in Slots : UpdateUpdate(r)
    \/ \E r \in Slots : DeleteFindProject(r)
    \/ \E r \in Slots : DeleteDelete(r)
    \/ \E r \in Slots : ManagerFindProject(r)
    \/ \E r \in Slots : ManagerFindUser(r)
    \/ \E r \in Slots : ManagerFindManager(r)
    \/ \E r \in Slots : ManagerCreate(r)
    \/ \E r \in Slots : DeleteManagerFindProject(r)
    \/ \E r \in Slots : DeleteManagerFindUser(r)
    \/ \E r \in Slots : DeleteManagerFindManager(r)
    \/ \E r \in Slots : DeleteManagerDelete(r)
    \/ \E r \in Slots : GetPositionsFindProject(r)
    \/ \E r \in Slots : GetPositionsFind(r)
    \/ \E r \in Slots : GetManagersFindProject(r)
    \/ \E r \in Slots : GetManagersFind(r)
    \/ \E r \in Slots : GetResumesFindProject(r)
    \/ \E r \in Slots : GetResumesFind(r)
    \/ \E r \in Slots : ActiveFindProject(r)
    \/ \E r \in Slots : ActiveSave(r)
    \/ \E r \in Slots : DeActiveFindProject(r)
    \/ \E r \in Slots : DeActiveSave(r)
    \/ \E r \in Slots : UpdateLogo(r)
    \/ OnCreate

SpecProject == Init /\ [][NextProject]_vars

\* ======================================================================
\* The router: the middleware chain mounted ahead of each controller.
\* ======================================================================

\* The table as it would be with the access middleware mounted ahead of canAccess.
RouteTable_AccessBeforeGate ==
    ("/auth"            :> <<"authRouter">>) @@
    ("/users"           :> <<"verifyToken", "userRouter">>) @@
    ("/companies/:id"   :> <<"verifyToken", "companyAccess", "canAccess", "companyIdRouter">>) @@
    ("/companies"       :> <<"verifyToken", "companyAccess", "canAccess", "companyRouter">>) @@
    ("/projects/:id"    :> <<"verifyToken", "projectAccess", "canAccess", "projectIdRouter">>) @@
    ("/projects"        :> <<"verifyToken", "projectAccess", "canAccess", "projectRouter">>) @@
    ("/permissions/:id" :> <<"verifyToken", "canAccess", "permissionIdRouter">>) @@
    ("/permissions"     :> <<"verifyToken", "canAccess", "permissionRouter">>) @@
    ("/roles/:id"       :> <<"verifyToken", "canAccess", "roleIdRouter">>) @@
    ("/roles"           :> <<"verifyToken", "canAccess", "roleRouter">>) @@
    ("/resumes"         :> <<"verifyToken", "resumeRouter">>) @@
    ("/constant"        :> <<"verifyToken", "constantRouter">>) @@
    ("/provinces"       :> <<"verifyToken", "provinceRouter">>) @@
    ("/cities"          :> <<"verifyToken", "cityRouter">>) @@
    ("/positions"       :> <<"verifyToken", "positionRouter">>)

\* The table as it would be with the access middleware left off the company and
\* project mounts (as it is off the mounts below them).
RouteTable_NoAccess ==
    ("/auth"            :> <<"authRouter">>) @@
    ("/users"           :> <<"verifyToken", "userRouter">>) @@
    ("/companies/:id"   :> <<"verifyToken", "canAccess", "companyIdRouter">>) @@
    ("/companies"       :> <<"verifyToken", "canAccess", "companyRouter">>) @@
    ("/projects/:id"    :> <<"verifyToken", "canAccess", "projectIdRouter">>) @@
    ("/projects"        :> <<"verifyToken", "canAccess", "projectRouter">>) @@
    ("/permissions/:id" :> <<"verifyToken", "canAccess", "permissionIdRouter">>) @@
    ("/permissions"     :> <<"verifyToken", "canAccess", "permissionRouter">>) @@
    ("/roles/:id"       :> <<"verifyToken", "canAccess", "roleIdRouter">>) @@
    ("/roles"           :> <<"verifyToken", "canAccess", "roleRouter">>) @@
    ("/resumes"         :> <<"verifyToken", "resumeRouter">>) @@
    ("/constant"        :> <<"verifyToken", "constantRouter">>) @@
    ("/provinces"       :> <<"verifyToken", "provinceRouter">>) @@
    ("/cities"          :> <<"verifyToken", "cityRouter">>) @@
    ("/positions"       :> <<"verifyToken", "positionRouter">>)

\* router.use(path, ...middlewares, router): the chain of every mount, in order.
RouteTable ==
    ("/auth"            :> <<"authRouter">>) @@
    ("/users"           :> <<"verifyToken", "userRouter">>) @@
    ("/companies/:id"   :> <<"verifyToken", "canAccess", "companyAccess", "companyIdRouter">>) @@
    ("/companies"       :> <<"verifyToken", "canAccess", "companyAccess", "companyRouter">>) @@
    ("/projects/:id"    :> <<"verifyToken", "canAccess", "projectAccess", "projectIdRouter">>) @@
    ("/projects"        :> <<"verifyToken", "canAccess", "projectAccess", "projectRouter">>) @@
    ("/permissions/:id" :> <<"verifyToken", "canAccess", "permissionIdRouter">>) @@
    ("/permissions"     :> <<"verifyToken", "canAccess", "permissionRouter">>) @@
    ("/roles/:id"       :> <<"verifyToken", "canAccess", "roleIdRouter">>) @@
    ("/roles"           :> <<"verifyToken", "canAccess", "roleRouter">>) @@
    ("/resumes"         :> <<"verifyToken", "resumeRouter">>) @@
    ("/constant"        :> <<"verifyToken", "constantRouter">>) @@
    ("/provinces"       :> <<"verifyToken", "provinceRouter">>) @@
    ("/cities"          :> <<"verifyToken", "cityRouter">>) @@
    ("/positions"       :> <<"verifyToken", "positionRouter">>)

Mounts == DOMAIN RouteTable

Middlewares == {"verifyToken", "canAccess", "companyAccess", "projectAccess"}

\* The resource type a mount's routes declare, and whether they address one instance.
ResourceType(mount) ==
    CASE mount \in {"/companies/:id", "/companies"} -> "company"
      [] mount \in {"/projects/:id", "/projects"} -> "project"
      [] mount \in {"/permissions/:id", "/permissions"} -> "permission"
      [] mount \in {"/roles/:id", "/roles"} -> "role"
      [] mount = "/resumes" -> "resume"
      [] mount = "/positions" -> "position"
      [] OTHER -> "none"

HasId(mount) == mount \in {"/companies/:id", "/projects/:id", "/permissions/:id", "/roles/:id"}

\* ---- permission catalog

Actions == {"create", "read", "update", "delete"}

RolePermissions ==
    [admin   |-> {<<"company", "manage">>, <<"project", "manage">>,
                  <<"permission", "manage">>, <<"role", "manage">>},
     manager |-> {<<"company", "read">>, <<"company", "update">>, <<"company", "delete">>,
                  <<"project", "create">>, <<"project", "read">>, <<"project", "update">>,
                  <<"project", "delete">>},
     viewer  |-> {<<"company", "read">>, <<"project", "read">>},
     guest   |-> {}]

Roles == DOMAIN RolePermissions

HasManage(role, resourceType) == <<resourceType, "manage">> \in RolePermissions[role]

hasPermission(role, resourceType, action) ==
    \/ <<resourceType, action>> \in RolePermissions[role]
    \/ HasManage(role, resourceType)

\* ---- scope loader and evaluator

\* A resource key is well formed when it has the shape of a store identifier.
WellFormed(id) == id > 0

\* Strength an action requires of an assignment.
RequiredStrength(action) == IF action = "delete" THEN "owner" ELSE "owner_or_manager"

Satisfies(type, strength) == type = "owner" \/ strength = "owner_or_manager"

Level(entity, id) == [entity |-> entity, id |-> id]

AssignmentAt(coll, userId, level) == Manager_findOne(coll, level.entity, level.id, userId)

Min(S) == CHOOSE x \in S : \A y \in S : x <= y

\* The evaluator as it would be if the strongest assignment found anywhere on the
\* chain decided, instead of the first one.
Decide_StrongestLevel(coll, principal, resourceType, chain, strength) ==
    LET assigned == {i \in 1 .. Len(chain) : AssignmentAt(coll, principal.userId, chain[i]) # {}}
        types == {One(AssignmentAt(coll, principal.userId, chain[i])).type : i \in assigned}
    IN  IF assigned = {}
          THEN IF HasManage(principal.roleId, resourceType) THEN "allow" ELSE "not_a_manager"
        ELSE IF \E t \in types : Satisfies(t, strength)
          THEN "allow" ELSE "insufficient_assignment_strength"

\* Walk the scope chain from the most specific level: the first level where the
\* principal has an assignment decides.  An assignment on the addressed resource
\* counts by its type; an assignment inherited from the parent company counts only
\* as owner, and only for owner_or_manager strength.
Decide(coll, principal, resourceType, chain, strength) ==
    LET assigned == {i \in 1 .. Len(chain) : AssignmentAt(coll, principal.userId, chain[i]) # {}}
    IN  IF assigned = {}
          THEN IF HasManage(principal.roleId, resourceType) THEN "allow" ELSE "not_a_manager"
        ELSE LET i == Min(assigned)
                 a == One(AssignmentAt(coll, principal.userId, chain[i]))
             IN  IF i = 1
                   THEN IF Satisfies(a.type, strength)
                          THEN "allow" ELSE "insufficient_assignment_strength"
                 ELSE IF a.type = "owner" /\ strength = "owner_or_manager"
                        THEN "allow" ELSE "insufficient_assignment_strength"

\* ---- the chain's steps

Stage == IF auth.at = 0 THEN "none" ELSE RouteTable[auth.mount][auth.at]

Halt(res) == [auth EXCEPT !.at = 0, !.sub = "", !.res = res]
\* next(): on to the following middleware of the mount.
Pass == [auth EXCEPT !.at = @ + 1, !.sub = ""]

AuthFrame == UNCHANGED <<projects, managers, reqs, served, events, pending>>

VerifyToken ==
    /\ Stage = "verifyToken"
    /\ auth' = IF auth.token.valid
                 THEN [Pass EXCEPT !.principal = [userId |-> auth.token.userId,
                                                  roleId |-> auth.token.roleId]]
               ELSE Halt(Failure("UnauthenticatedError", "invalid_credential"))
    /\ AuthFrame

CanAccess ==
    /\ Stage = "canAccess"
    /\ auth' = IF hasPermission(auth.principal.roleId, ResourceType(auth.mount), auth.action)
                 THEN Pass
               ELSE Halt(Failure("ForbiddenError", "role_permission_denied"))
    /\ AuthFrame

\* companyAccess / projectAccess, first part: validate the identifier, then load
\* the addressed resource.  A collection route carries no identifier: the
\* permission check alone suffices for it.
LoadResource ==
    /\ Stage \in {"companyAccess", "projectAccess"}
    /\ auth.sub = ""
    /\ auth' =
         IF ~HasId(auth.mount) THEN Pass
         ELSE IF ~WellFormed(auth.id)
           THEN Halt(Failure("BadRequestError", "invalid_identifier"))
         ELSE IF Stage = "companyAccess"
           THEN IF Company_findOne(auth.id) = {}
                  THEN [Halt(Failure("NotFoundError", "resource_not_found"))
                          EXCEPT !.loads = @ + 1]
                ELSE [auth EXCEPT !.loads = @ + 1, !.sub = "evaluate",
                                  !.chain = <<Level("companies", auth.id)>>]
         ELSE IF Project_findById(projects, auth.id) = {}
                THEN [Halt(Failure("NotFoundError", "resource_not_found"))
                        EXCEPT !.loads = @ + 1]
              ELSE [auth EXCEPT !.loads = @ + 1, !.sub = "parent",
                                !.parentId = One(Project_findById(projects, auth.id)).company_id,
                                !.chain = <<Level("projects", auth.id)>>]
    /\ AuthFrame

\* projectAccess, second part: load the project's parent company.
LoadParent ==
    /\ Stage = "projectAccess"
    /\ auth.sub = "parent"
    /\ LET company == Company_findOne(auth.parentId)
       IN  auth' = IF company = {}
                     THEN [Halt(Failure("NotFoundError", "parent_resource_not_found"))
                             EXCEPT !.loads = @ + 1]
                   ELSE [auth EXCEPT !.loads = @ + 1, !.sub = "evaluate",
                                     !.chain = Append(@, Level("companies", One(company)._id))]
    /\ AuthFrame

\* companyAccess / projectAccess, last part: the ownership evaluator.
Evaluate ==
    /\ Stage \in {"companyAccess", "projectAccess"}
    /\ auth.sub = "evaluate"
    /\ LET d == Decide(managers, auth.principal, ResourceType(auth.mount), auth.chain,
                       RequiredStrength(auth.action))
       IN  auth' = IF d = "allow" THEN Pass ELSE Halt(Failure("ForbiddenError", d))
    /\ AuthFrame

\* The route's validator as it would be if it let every identifier through.
Validate_NoCheck ==
    /\ auth.at # 0
    /\ Stage \notin Middlewares
    /\ HasId(auth.mount)
    /\ auth.sub = ""
    /\ auth' = [auth EXCEPT !.sub = "validated"]
    /\ AuthFrame

\* The end of the chain, first part: a router of an identifier mount runs the
\* route's validator ahead of the controller; the validator rejects a malformed
\* path identifier.
Validate ==
    /\ auth.at # 0
    /\ Stage \notin Middlewares
    /\ HasId(auth.mount)
    /\ auth.sub = ""
    /\ auth' = IF WellFormed(auth.id)
                 THEN [auth EXCEPT !.sub = "validated"]
               ELSE Halt(Failure("BadRequestError", "invalid_identifier"))
    /\ AuthFrame

\* The end of the chain, last part: the mount's router runs the business handler.
Handler ==
    /\ auth.at # 0
    /\ Stage \notin Middlewares
    /\ HasId(auth.mount) => auth.sub = "validated"
    /\ auth' = [Halt(Success("handled")) EXCEPT !.executed = TRUE]
    /\ AuthFrame

\* ---- the stores and the request the chain is checked on

\* Project 1 belongs to company 1, project 2 is soft-deleted, project 3 belongs
\* to a company that is gone.
AuthProjects ==
    {[_id |-> 1, name |-> "n1", company_id |-> 1, created_by |-> 2, is_active |-> TRUE,
      deleted |-> FALSE],
     [_id |-> 2, name |-> "n2", company_id |-> 1, created_by |-> 2, is_active |-> TRUE,
      deleted |-> TRUE],
     [_id |-> 3, name |-> "n1", company_id |-> 3, created_by |-> 2, is_active |-> TRUE,
      deleted |-> FALSE]}

\* Identifiers a request may carry: -1 is malformed, 4 is well formed and names
\* nothing.
AuthIdInputs == {-1, 1, 2, 3, 4}

AssignmentChoices == {"none", "owner", "manager"}

\* User 2 owns project 1 and company 1; the principal (user 1) holds the chosen
\* assignments on them.
AuthManagers(onProject, onCompany) ==
    {[_id |-> 1, entity |-> "projects", entity_id |-> 1, user_id |-> 2, type |-> "owner",
      created_by |-> 2, deleted |-> FALSE],
     [_id |-> 2, entity |-> "companies", entity_id |-> 1, user_id |-> 2, type |-> "owner",
      created_by |-> 2, deleted |-> FALSE]}
    \cup (IF onProject = "none" THEN {} ELSE
            {[_id |-> 3, entity |-> "projects", entity_id |-> 1, user_id |-> 1,
              type |-> onProject, created_by |-> 2, deleted |-> FALSE]})
    \cup (IF onCompany = "none" THEN {} ELSE
            {[_id |-> 4, entity |-> "companies", entity_id |-> 1, user_id |-> 1,
              type |-> onCompany, created_by |-> 2, deleted |-> FALSE]})

InitAuth ==
    /\ projects = AuthProjects
    /\ \E onProject \in AssignmentChoices, onCompany \in AssignmentChoices :
          managers = AuthManagers(onProject, onCompany)
    /\ reqs = [r \in Slots |-> IdleRequest]
    /\ served = 0
    /\ events = {}
    /\ pending = {}
    /\ \E mount \in Mounts, action \in Actions, id \in AuthIdInputs, valid \in BOOLEAN,
          role \in Roles :
          auth = [NoAuth EXCEPT !.mount = mount, !.action = action,
                                !.id = IF HasId(mount) THEN id ELSE 0,
                                !.token = [valid |-> valid, userId |-> 1, roleId |-> role],
                                !.at = 1]

NextAuth ==
    \/ VerifyToken
    \/ CanAccess
    \/ LoadResource
    \/ LoadParent
    \/ Evaluate
    \/ Validate
    \/ Handler

SpecAuth == InitAuth /\ [][NextAuth]_vars

\* ======================================================================
\* Properties
\* ======================================================================

OwnerCount(id) == Cardinality(Owners(managers, "projects", id))

IsDone(r, op) == reqs[r].op = op /\ reqs[r].pc = "done"

Succeeded(r, op) == IsDone(r, op) /\ reqs[r].res.kind = "success"

OwnerCannotBeDeletedError ==
    Failure("BadRequestError", "project.errors.the_owner_manager_cannot_be_deleted")

\* C1: once a project has been created, in every reachable state the project,
\* unless deleted, has at least one assignment of type owner.
C1_EntityAlwaysHasOwner ==
    \A p \in Visible(projects) : OwnerCount(p._id) >= 1

\* C3: set-manager for a (project, user) that already has an assignment fails
\* with AlreadyExists and leaves the manager store unchanged, whatever type is
\* requested and whatever type the existing assignment has.
C3_DuplicateFailsAlreadyExists ==
    [][\A r \in Slots :
         (/\ reqs[r].pc = "manager_findManager"
          /\ reqs'[r] # reqs[r]
          /\ Manager_findOne(managers, "projects", reqs[r].project, reqs[r].manager_id) # {})
         => /\ reqs'[r].pc = "done"
            /\ reqs'[r].res.kind = "AlreadyExists"
            /\ managers' = managers]_vars

\* C4: two delete-manager requests on one project, each aimed at a different
\* owner and interleaved in any order, do not both succeed, and no step takes a
\* project that has an owner to a state where it has none.
C4_OwnersNeverReachZero ==
    [][/\ \A p \in ProjectIdInputs : OwnerCount(p) >= 1 => OwnerCount(p)' >= 1
       /\ \A r1, r2 \in Slots :
            ~(/\ r1 # r2
              /\ Succeeded(r1, "deleteManager")' /\ Succeeded(r2, "deleteManager")'
              /\ reqs'[r1].project = reqs'[r2].project
              /\ reqs'[r1].manager # reqs'[r2].manager
              /\ \A d \in managers' :
                   d._id \in {reqs'[r1].manager, reqs'[r2].manager} => d.type = "owner")]_vars

\* C4's case: two delete-manager requests on project 1 are in flight at once, one
\* aimed at owner 1 and one at owner 2, each past its project and user lookups
\* and about to look its assignment up, while the project has exactly two owners.
C4_Witness ==
    /\ reqs[1].pc = "deleteManager_findManager" /\ reqs[2].pc = "deleteManager_findManager"
    /\ reqs[1].project = 1 /\ reqs[2].project = 1
    /\ reqs[1].manager_id = 1 /\ reqs[2].manager_id = 2
    /\ OwnerCount(1) = 2

\* C5: there is at most one assignment per (project, user): of two set-manager
\* requests for the same (project, user), at most one creates an assignment, so
\* the store never shows two assignments that two such requests created.
C5_AtMostOneAssignmentPerKey ==
    \A r1, r2 \in Slots :
        (/\ r1 # r2
         /\ Succeeded(r1, "manager") /\ Succeeded(r2, "manager")
         /\ reqs[r1].project = reqs[r2].project
         /\ reqs[r1].manager_id = reqs[r2].manager_id)
        => ~\E m1, m2 \in Visible(managers) :
               /\ m1._id = reqs[r1].manager /\ m2._id = reqs[r2].manager
               /\ m1 # m2
               /\ m1.entity = m2.entity /\ m1.entity_id = m2.entity_id
               /\ m1.user_id = m2.user_id

\* C10: delete-manager aimed at an owner is rejected only when that owner is the
\* project's sole owner; with another owner present it succeeds.
C10_OwnerRemovableUnlessSole ==
    [][\A r \in Slots :
         (/\ reqs[r].pc = "deleteManager_findManager"
          /\ reqs'[r].pc = "done"
          /\ reqs'[r].res = OwnerCannotBeDeletedError)
         => OwnerCount(reqs[r].project) = 1]_vars

\* ---- the middleware chain

Finished == auth.at = 0 /\ auth.mount # ""

Resolved == auth.principal.roleId # ""

Permitted == Resolved /\ hasPermission(auth.principal.roleId, ResourceType(auth.mount), auth.action)

\* The type of the principal's assignment on an entity, "none" without one.
PrincipalType(entity, id) ==
    LET a == AssignmentAt(managers, auth.principal.userId, Level(entity, id))
    IN  IF a = {} THEN "none" ELSE One(a).type

\* The request addresses project 1, whose parent is company 1.
OnProject1 == auth.mount = "/projects/:id" /\ auth.id = 1
OnCompany1 == auth.mount = "/companies/:id" /\ auth.id = 1

Allowed == auth.executed /\ auth.res.kind = "success"
Denied(reason) == ~auth.executed /\ auth.res = Failure("ForbiddenError", reason)

C6_CompanyOwnerSubsumesOversightOnly ==
    (/\ Finished /\ Permitted /\ OnProject1
     /\ PrincipalType("projects", 1) = "none"
     /\ PrincipalType("companies", 1) = "owner")
    => IF RequiredStrength(auth.action) = "owner_or_manager"
         THEN Allowed
       ELSE ~auth.executed /\ auth.res.kind = "ForbiddenError"

\* C6's case: the company's owner read the project.
C6_Witness ==
    /\ Finished /\ Permitted /\ OnProject1
    /\ PrincipalType("projects", 1) = "none"
    /\ PrincipalType("companies", 1) = "owner"
    /\ auth.action = "read"
    /\ Allowed

\* C7: a principal who is owner of the project, has no assignment on its company
\* and no manage wildcard is allowed delete on the project and is denied, with
\* ForbiddenError not_a_manager, every scoped action on the company.
C7_ProjectOwnershipDoesNotAscend ==
    (/\ Finished /\ Permitted
     /\ ~HasManage(auth.principal.roleId, ResourceType(auth.mount))
     /\ PrincipalType("projects", 1) = "owner"
     /\ PrincipalType("companies", 1) = "none")
    => /\ (OnProject1 /\ auth.action = "delete") => Allowed
       /\ OnCompany1 => Denied("not_a_manager")

\* C7's case: the project's owner asked to delete the company and was denied.
C7_Witness ==
    /\ Finished /\ Permitted /\ OnCompany1
    /\ auth.action = "delete"
    /\ PrincipalType("projects", 1) = "owner"
    /\ PrincipalType("companies", 1) = "none"
    /\ Denied("not_a_manager")

\* The scope loader built the whole chain of the addressed resource.
ChainLoaded ==
    /\ HasId(auth.mount)
    /\ ResourceType(auth.mount) \in {"company", "project"}
    /\ Len(auth.chain) = IF ResourceType(auth.mount) = "project" THEN 2 ELSE 1

\* The resource a scoped company or project request addresses exists, and so
\* does its parent.
ScopeExists ==
    /\ HasId(auth.mount)
    /\ \/ /\ ResourceType(auth.mount) = "company"
          /\ Company_findOne(auth.id) # {}
       \/ /\ ResourceType(auth.mount) = "project"
          /\ \E p \in Project_findById(projects, auth.id) : Company_findOne(p.company_id) # {}

\* The principal has no assignment on the addressed resource nor on its parent.
NoAssignmentOnScope ==
    /\ PrincipalType(IF ResourceType(auth.mount) = "project" THEN "projects" ELSE "companies",
                     auth.id) = "none"
    /\ ResourceType(auth.mount) = "project"
       => \A p \in Project_findById(projects, auth.id) :
             PrincipalType("companies", p.company_id) = "none"

\* C8: a principal whose role grants (resourceType, action) without the manage
\* wildcard and who has no assignment at any level of the scope chain is denied
\* with ForbiddenError not_a_manager, and the handler does not run.
C8_RolePermissionAloneDenied ==
    (/\ Finished /\ Permitted /\ ScopeExists
     /\ ~HasManage(auth.principal.roleId, ResourceType(auth.mount))
     /\ NoAssignmentOnScope)
    => Denied("not_a_manager")

\* C8's case: role manager, permitted project:update, asked to update project 1
\* with no assignment on it nor on company 1.
C8_Witness ==
    /\ Finished /\ Permitted /\ OnProject1 /\ ChainLoaded
    /\ auth.principal.roleId = "manager" /\ auth.action = "update"
    /\ NoAssignmentOnScope
    /\ Denied("not_a_manager")

\* C9: a principal who is manager of the project and owner of its company is
\* denied an owner-strength action on the project with
\* insufficient_assignment_strength: the project-level assignment decides.
C9_FirstLevelDecides ==
    (/\ Finished /\ Permitted /\ OnProject1
     /\ PrincipalType("projects", 1) = "manager"
     /\ PrincipalType("companies", 1) = "owner"
     /\ RequiredStrength(auth.action) = "owner")
    => Denied("insufficient_assignment_strength")

\* C9's case: that principal asked to delete the project and was denied.
C9_Witness ==
    /\ Finished /\ Permitted /\ OnProject1 /\ ChainLoaded
    /\ PrincipalType("projects", 1) = "manager"
    /\ PrincipalType("companies", 1) = "owner"
    /\ auth.action = "delete"
    /\ Denied("insufficient_assignment_strength")

\* ---- deletion, round trip, events

\* C11: no project is marked deleted while an assignment for it still exists in
\* the manager store.
C11_DeleteCascadesAssignments ==
    \A p \in projects : p.deleted => Manager_find(managers, "projects", p._id) = {}

\* C12: right after a successful set-manager, find for its (project, user)
\* returns an assignment of exactly the requested type; right after a successful
\* delete-manager, find for its (project, user) returns none.
C12_AssignFindRoundTrip ==
    [][\A r \in Slots :
         /\ (reqs[r].pc = "manager_create" /\ Succeeded(r, "manager")')
            => \E d \in Manager_findOne(managers', "projects", reqs[r].project,
                                        reqs[r].manager_id) :
                  /\ d._id = reqs'[r].manager
                  /\ d.type = reqs[r].type
         /\ (reqs[r].pc = "deleteManager_delete" /\ Succeeded(r, "deleteManager")')
            => Manager_findOne(managers', "projects", reqs[r].project,
                               reqs[r].manager_id) = {}]_vars

\* The mutation an event reports is in the stores.
Committed(e) ==
    CASE e.kind = "CREATE" -> \E p \in projects : p._id = e.id
      [] e.kind = "DELETE" -> \E p \in projects : p._id = e.id /\ p.deleted
      [] e.kind = "SET_MANAGER" ->
           \E r \in Slots : /\ reqs[r].op = "manager" /\ reqs[r].project = e.id
                            /\ \E d \in managers : d._id = reqs[r].manager
      [] e.kind = "UNSET_MANAGER" ->
           \E r \in Slots : /\ reqs[r].op = "deleteManager" /\ reqs[r].project = e.id
                            /\ \E d \in managers : d._id = reqs[r].manager /\ d.deleted
      [] OTHER -> TRUE

\* C14: an event is emitted only once the mutation it reports has been written:
\* at the step that emits it, the write is in the stores.
C14_EventAfterCommit ==
    [][\A e \in events' \ events : Committed(e)']_vars

\* C16: delete-manager for a (project, user) that has no assignment fails with
\* NotFoundError, leaves the manager store unchanged and emits no event.
C16_UnassignAbsentNotFound ==
    [][\A r \in Slots :
         (/\ reqs[r].pc = "deleteManager_findManager"
          /\ reqs'[r] # reqs[r]
          /\ Manager_findOne(managers, "projects", reqs[r].project, reqs[r].manager_id) = {})
         => /\ reqs'[r].pc = "done"
            /\ reqs'[r].res.kind = "NotFoundError"
            /\ managers' = managers
            /\ events' = events]_vars

\* ---- the pipeline ahead of the handler

CatalogTypes == {"company", "project", "position", "resume", "permission", "role"}

\* C15: on every route of a resource type covered by the permission catalog the
\* handler executes only if the principal was resolved and the role/permission
\* gate passed, and, on a route addressing one company or project, only if the
\* scope was loaded and the ownership evaluator allowed the request.
C15_HandlerOnlyAfterEveryStage ==
    (auth.executed /\ ResourceType(auth.mount) \in CatalogTypes)
    => /\ Permitted
       /\ (HasId(auth.mount) /\ ResourceType(auth.mount) \in {"company", "project"})
          => /\ ChainLoaded
             /\ Decide(managers, auth.principal, ResourceType(auth.mount), auth.chain,
                       RequiredStrength(auth.action)) = "allow"

\* ---- identifier validation

MalformedId == HasId(auth.mount) /\ ~WellFormed(auth.id)

\* C13: on every route with a path identifier, a request carrying a malformed
\* identifier makes no resource lookup and never reaches the handler, and, once
\* it is past principal resolution and the role/permission gate, it ends with
\* BadRequestError invalid_identifier; this holds on the routes whose access
\* middleware runs ahead of the route's validator too.
C13_MalformedIdRejectedBeforeLookup ==
    MalformedId
    => /\ auth.loads = 0
       /\ ~auth.executed
       /\ (/\ Finished
           /\ auth.token.valid
           /\ hasPermission(auth.token.roleId, ResourceType(auth.mount), auth.action))
          => auth.res = Failure("BadRequestError", "invalid_identifier")

\* C13's case: a request with a malformed identifier on a company or project
\* route passed the gate and was rejected by the access middleware, ahead of the
\* route's validator, without a lookup.
C13_Witness ==
    /\ MalformedId
    /\ auth.mount \in {"/companies/:id", "/projects/:id"}
    /\ Permitted
    /\ Finished
    /\ auth.res = Failure("BadRequestError", "invalid_identifier")
    /\ auth.loads = 0

\* ---- the whole controller

\* The steps at which an operation that addresses a project by its identifier
\* loads the project.
LoadPcs ==
    {"find_findProject", "update_findProject", "delete_findProject", "manager_findProject",
     "deleteManager_findProject", "active_findProject", "deActive_findProject",
     "getPositions_findProject", "getManagers_findProject", "getResumes_findProject"}

\* No project that is not soft-deleted has this identifier.
AbsentOrDeleted(id) == ~\E p \in projects : p._id = id /\ ~p.deleted

C18_NameUniquePerCompany ==
    \A p, q \in Visible(projects) :
        (p.name = q.name /\ p.company_id = q.company_id) => p = q

\* C19: an update-logo request ends with a success response or with
\* NotFoundError, never with any other error.
C19_UpdateLogoSucceedsOrNotFound ==
    \A r \in Slots :
        IsDone(r, "updateLogo") => reqs[r].res.kind \in {"success", "NotFoundError"}

====
